---- MODULE Spec2Model ----
(***************************************************************************)
(* State-machine model of the io.net worker launcher (src/main.go).        *)
(* One run of main() is one behaviour: flags and the cache file are fixed  *)
(* in Init, every external command and every line of standard input is an *)
(* input chosen at the step that consumes it.                              *)
(***************************************************************************)
EXTENDS Integers, Sequences, FiniteSets, TLC

(* ------------------------------------------------------------------ *)
(* Program constants                                                   *)
(* ------------------------------------------------------------------ *)

repoNames == <<"ionetcontainers/io-worker-vc", "ionetcontainers/io-worker-monitor",
               "ionetcontainers/io-launch">>

validArchChoices == <<"x86_64", "arm64", "aarch64">>

validOSChoices == <<"macOS", "Linux">>

StableImage == "ionetcontainers/io-launch:v0.1"

BetaImage == "ionetcontainers/io-launch-beta:v0.1"

(* ------------------------------------------------------------------ *)
(* Input domains                                                       *)
(* ------------------------------------------------------------------ *)

UUID1 == "123e4567-e89b-12d3-a456-426614174000"

UUID2 == "urn:uuid:9b2f6c1e-4d3a-4c8e-8f6b-0a1b2c3d4e5f"

\* strings uuid.Parse accepts: the canonical form and the urn form
ParsableUUIDs == {UUID1, UUID2}

\* one whitespace-free word typed at a prompt or given as a flag
Tokens == {"dev1", UUID1, UUID2, "not-a-uuid", "Linux", "macOS", "Windows", "true", "false"}

EOF == <<"EOF">>

\* a line of standard input: end of input, an empty line, one word, or two words
Lines == {EOF, <<>>} \cup {<<t>> : t \in Tokens} \cup {<<"dev1", "extra">>}

\* what uname -m may print (trimmed)
UnameOutputs == {"x86_64", "arm64", "riscv64"}

\* the trimmed output of the sysctl machdep pipeline
MacInfoOutput == "{machdep}"

\* how many containers the host may be running
MaxContainers == 2

\* container IDs docker ps -q may print
Containers == 1..MaxContainers

\* images the host may hold: repository, tag (rank of the tag string in
\* byte order), creation time, ID.  A tag names one image, so (repo, tag)
\* is unique.  For io-worker-monitor the later tag is the older build.
ImageUniverse ==
    { [repo |-> repoNames[1], tag |-> 1, created |-> 1, id |-> "sha-a"],
      [repo |-> repoNames[1], tag |-> 2, created |-> 2, id |-> "sha-b"],
      [repo |-> repoNames[2], tag |-> 1, created |-> 2, id |-> "sha-c"],
      [repo |-> repoNames[2], tag |-> 2, created |-> 1, id |-> "sha-d"],
      [repo |-> repoNames[3], tag |-> 1, created |-> 1, id |-> "sha-e"] }

Fields == {"DeviceName", "DeviceID", "UserID", "OperatingSystem", "UseGPUs"}

CacheKeys == {"device_name", "device_id", "user_id", "operating_system", "usegpus",
              "arch", "beta"}

\* a decoded JSON value (interface{}): nil for a missing key or null
NilValue == [kind |-> "nil", s |-> ""]

StrValue(s) == [kind |-> "string", s |-> s]

NoFile == [present |-> FALSE, data |-> [k \in CacheKeys |-> NilValue]]

FileOf(m) == [present |-> TRUE, data |-> m]

(* ------------------------------------------------------------------ *)
(* Pure helpers                                                        *)
(* ------------------------------------------------------------------ *)

Range(s) == {s[i] : i \in 1..Len(s)}

\* variant: the fall-through result is true
contains_ReturnsTrue(slice, str) == (\E i \in 1..Len(slice) : slice[i] = str) \/ TRUE

contains(slice, str) == \E i \in 1..Len(slice) : slice[i] = str

isValidUUID(value) == value \in ParsableUUIDs

\* fmt.Sprintf("%v", v)
SprintfV(v) == IF v.kind = "nil" THEN "<nil>" ELSE v.s

\* fmt.Scanln(&dst) on one line: <<stored value, err>>
Scanln(dst, line) ==
    IF line = EOF THEN <<dst, TRUE>>
    ELSE IF Len(line) = 0 THEN <<dst, TRUE>>
    ELSE IF Len(line) = 1 THEN <<line[1], FALSE>>
    ELSE <<line[1], TRUE>>


LineLess(a, b) ==
    \/ a.tag < b.tag
    \/ a.tag = b.tag /\ a.created < b.created

\* the image whose line sort -r puts first
FirstLine(S) == CHOOSE x \in S : \A y \in S \ {x} : LineLess(y, x)

RECURSIVE SortReverse(_)
SortReverse(S) ==
    IF S = {} THEN <<>>
    ELSE LET x == FirstLine(S) IN <<x>> \o SortReverse(S \ {x})

\* grep -i '<repoName>' on the "repo:tag created id" lines
GrepRepo(imgs, repoName) == {x \in imgs : x.repo = repoName}

getDockerImageIDsSorted(imgs, repoName) ==
    LET sortedImages == SortReverse(GrepRepo(imgs, repoName))
    IN  [i \in 1..Len(sortedImages) |-> sortedImages[i].id]

ZeroArguments ==
    [DeviceName |-> "", DeviceID |-> "", UserID |-> "", OperatingSystem |-> "",
     UseGPUs |-> "", Architecture |-> "", Beta |-> FALSE]

\* main, lines 235-257: the flag-to-cache fallback
FallbackArgs(f, c) ==
    LET a0 == ZeroArguments
        a1 == IF f.device_name = ""
              THEN [a0 EXCEPT !.DeviceName = SprintfV(c["device_name"])] ELSE a0
        a2 == IF f.device_id = ""
              THEN [a1 EXCEPT !.DeviceName = SprintfV(c["device_id"])] ELSE a1
        a3 == IF f.user_id = ""
              THEN [a2 EXCEPT !.DeviceName = SprintfV(c["user_id"])] ELSE a2
        a4 == IF f.operating_system = ""
              THEN [a3 EXCEPT !.DeviceName = SprintfV(c["operating_system"])] ELSE a3
        a5 == IF f.usegpus = ""
              THEN [a4 EXCEPT !.DeviceName = SprintfV(c["usegpus"])] ELSE a4
        a6 == IF f.arch = ""
              THEN [a5 EXCEPT !.DeviceName = SprintfV(c["arch"])] ELSE a5
        a7 == IF f.beta
              THEN [a6 EXCEPT !.DeviceName = SprintfV(c["beta"])] ELSE a6
    IN  a7

DeviceNameLoopCond(a) == a.DeviceName = ""

\* variant: the loop tests only for the empty string
DeviceIDLoopCond_EmptyOnly(a) == a.DeviceID = ""

DeviceIDLoopCond(a) == a.DeviceID = "" \/ ~isValidUUID(a.DeviceID)

UserIDLoopCond(a) == a.UserID = "" \/ ~isValidUUID(a.UserID)

OperatingSystemLoopCond(a) ==
    a.OperatingSystem = "" \/ ~contains(validOSChoices, a.OperatingSystem)

UseGPUsLoopCond(a) ==
    a.UseGPUs = "" \/ (a.UseGPUs # "true" /\ a.UseGPUs # "false")

\* variant: device_id is filled from the device name
cacheData_WrongField(a) ==
    [k \in CacheKeys |->
        CASE k = "device_name" -> StrValue(a.DeviceName)
          [] k = "device_id" -> StrValue(a.DeviceName)
          [] k = "user_id" -> StrValue(a.UserID)
          [] k = "operating_system" -> StrValue(a.OperatingSystem)
          [] k = "usegpus" -> StrValue(a.UseGPUs)
          [] OTHER -> NilValue]

\* main, lines 366-372: the snapshot handed to saveCache
cacheData(a) ==
    [k \in CacheKeys |->
        CASE k = "device_name" -> StrValue(a.DeviceName)
          [] k = "device_id" -> StrValue(a.DeviceID)
          [] k = "user_id" -> StrValue(a.UserID)
          [] k = "operating_system" -> StrValue(a.OperatingSystem)
          [] k = "usegpus" -> StrValue(a.UseGPUs)
          [] OTHER -> NilValue]

EnvIfSet(name, value) == IF value # "" THEN <<"-e", name \o "=" \o value>> ELSE <<>>

ChannelTokens(a) ==
    IF a.Beta
    THEN <<"-e", "CURRENT_LOG_LEVEL=DEBUG", "-e", "ENVIRONMENT=DEV", BetaImage>>
    ELSE <<StableImage>>

\* macInfo is the trimmed output of the sysctl pipeline (read only on macOS)
constructDockerCommand(a, architecture, macInfo) ==
    <<"docker", "run", "-d", "-v", "/var/run/docker.sock:/var/run/docker.sock",
      "--network", "host">>
    \o <<"-e", "ARCH=" \o architecture>>
    \o (IF architecture # "x86_64" THEN <<"--platform", "linux/amd64">> ELSE <<>>)
    \o EnvIfSet("DEVICE_NAME", a.DeviceName)
    \o EnvIfSet("DEVICE_ID", a.DeviceID)
    \o EnvIfSet("USER_ID", a.UserID)
    \o EnvIfSet("OPERATING_SYSTEM", a.OperatingSystem)
    \o EnvIfSet("USEGPUS", a.UseGPUs)
    \o (IF a.OperatingSystem = "macOS"
        THEN <<"-e", "MAC_INFO=" \o macInfo, "--pull", "always">> ELSE <<>>)
    \o ChannelTokens(a)

(* ------------------------------------------------------------------ *)
(* State                                                               *)
(* ------------------------------------------------------------------ *)

VARIABLES
    flags,          \* the parsed command-line flags
    cacheFile,      \* ionet_device_cache.txt on disk
    cache,          \* the map loadCache returned
    args,           \* *Arguments
    pc,             \* position in main (where the process ended, once it has)
    exitCode,       \* -1 while running, then the process exit code
    running,        \* containers running on the host
    containers,     \* stopRunningContainers: the docker ps -q output
    images,         \* images on the host
    repoIdx,        \* main: index of repoName in the janitor loop
    imageIDs,       \* main: the list returned for the current repoName
    rmIdx,          \* main: index into imageIDs of the next removal
    listed,         \* per repository, the list getDockerImageIDsSorted returned
    dockerLog,      \* docker commands issued so far, in order
    probes,         \* platform utilities run so far
    prompted,       \* fields whose prompt was printed
    cacheReads,     \* number of times the cache file was opened for reading
    cacheWrites,    \* number of times the cache file was created for writing
    dockerCommand,  \* the token list constructDockerCommand returned
    launched        \* the container command ran successfully

vars == <<flags, cacheFile, cache, args, pc, exitCode, running, containers, images,
          repoIdx, imageIDs, rmIdx, listed, dockerLog, probes, prompted,
          cacheReads, cacheWrites, dockerCommand, launched>>

hostVars == <<running, containers, images, repoIdx, imageIDs, rmIdx, listed>>

resolverVars == <<args, prompted>>

cacheVars == <<cacheFile, cache, cacheReads, cacheWrites>>

Call(cmd, arg) == [cmd |-> cmd, arg |-> arg]

(* ------------------------------------------------------------------ *)
(* Initial states                                                      *)
(* ------------------------------------------------------------------ *)

Flags(dn, di, ui, os, ug, ar, b) ==
    [device_name |-> dn, device_id |-> di, user_id |-> ui, operating_system |-> os,
     usegpus |-> ug, arch |-> ar, beta |-> b]

NoFlags == Flags("", "", "", "", "", "", FALSE)

AllFlagsLinux == Flags("dev1", UUID1, UUID2, "Linux", "false", "x86_64", FALSE)

FlagSets ==
    { NoFlags,
      AllFlagsLinux,
      [AllFlagsLinux EXCEPT !.beta = TRUE],
      [AllFlagsLinux EXCEPT !.arch = ""],
      [AllFlagsLinux EXCEPT !.operating_system = "macOS", !.usegpus = ""],
      [NoFlags EXCEPT !.operating_system = "macOS"],
      [NoFlags EXCEPT !.device_id = "not-a-uuid"],
      [NoFlags EXCEPT !.beta = TRUE] }

Snapshot(dn, di, ui, os, ug) ==
    [k \in CacheKeys |->
        CASE k = "device_name" -> dn
          [] k = "device_id" -> di
          [] k = "user_id" -> ui
          [] k = "operating_system" -> os
          [] k = "usegpus" -> ug
          [] OTHER -> NilValue]

DefaultCacheFile ==
    FileOf(Snapshot(StrValue("dev1"), StrValue(UUID1), StrValue(UUID2),
                    StrValue("Linux"), StrValue("true")))

CacheFiles ==
    { NoFile,
      FileOf([k \in CacheKeys |-> NilValue]),
      DefaultCacheFile,
      FileOf(Snapshot(StrValue("dev1"), StrValue(UUID1), StrValue(UUID2),
                      StrValue("macOS"), StrValue("false"))),
      FileOf(Snapshot(StrValue(""), StrValue("not-a-uuid"), NilValue,
                      StrValue("Windows"), StrValue(""))) }

\* Either the invocation varies on a host with one running container and
\* two io-worker-vc images, or the host varies under a flagless invocation
\* with the cache file a previous run left.
Init ==
    /\ \/ /\ flags \in FlagSets
          /\ cacheFile \in CacheFiles
          /\ running = {1}
          /\ images = {x \in ImageUniverse : x.repo = repoNames[1]}
       \/ /\ flags = NoFlags
          /\ cacheFile = DefaultCacheFile
          /\ running \in SUBSET Containers
          /\ images \in SUBSET ImageUniverse
    /\ cache = [k \in CacheKeys |-> NilValue]
    /\ args = ZeroArguments
    /\ pc = "loadCache"
    /\ exitCode = -1
    /\ containers = {}
    /\ repoIdx = 1
    /\ imageIDs = <<>>
    /\ rmIdx = 2
    /\ listed = [i \in 1..Len(repoNames) |-> <<>>]
    /\ dockerLog = <<>>
    /\ probes = {}
    /\ prompted = {}
    /\ cacheReads = 0
    /\ cacheWrites = 0
    /\ dockerCommand = <<>>
    /\ launched = FALSE

(* ------------------------------------------------------------------ *)
(* Steps of main                                                       *)
(* ------------------------------------------------------------------ *)

\* os.Exit(code), log.Fatal (code 1), or return from main (code 0): the
\* process ends where it stands
Exit(code) == exitCode' = code /\ UNCHANGED pc

\* the process is alive and about to run the step named p
At(p) == pc = p /\ exitCode = -1

\* main line 233, loadCache
LoadCache ==
    /\ At("loadCache")
    /\ cacheReads' = cacheReads + 1
    /\ IF cacheFile.present
       THEN cache' = cacheFile.data /\ pc' = "fallback" /\ UNCHANGED exitCode
       ELSE Exit(1) /\ UNCHANGED cache
    /\ UNCHANGED <<flags, cacheFile, cacheWrites, hostVars, resolverVars, dockerLog,
                   probes, dockerCommand, launched>>

\* main lines 235-257
CacheFallback ==
    /\ At("fallback")
    /\ args' = FallbackArgs(flags, cache)
    /\ pc' = "checkDocker1"
    /\ UNCHANGED <<flags, cacheVars, exitCode, hostVars, prompted, dockerLog,
                   probes, dockerCommand, launched>>

\* main lines 259-261 and 347-349, checkDocker
CheckDockerAt(here, next) ==
    /\ At(here)
    /\ dockerLog' = Append(dockerLog, Call("info", {}))
    /\ \E up \in BOOLEAN :
          IF up THEN pc' = next /\ UNCHANGED exitCode ELSE Exit(1)
    /\ UNCHANGED <<flags, cacheVars, hostVars, resolverVars, probes, dockerCommand,
                   launched>>

CheckDockerFirst == CheckDockerAt("checkDocker1", "dockerPs")

\* stopRunningContainers lines 85-91
DockerPs ==
    /\ At("dockerPs")
    /\ dockerLog' = Append(dockerLog, Call("ps", {}))
    /\ \E ok \in BOOLEAN :
          IF ~ok THEN Exit(1) /\ UNCHANGED containers
          ELSE /\ containers' = running
               /\ pc' = IF running # {} THEN "dockerStop" ELSE "listImages"
               /\ UNCHANGED exitCode
    /\ UNCHANGED <<flags, cacheVars, resolverVars, running, images, repoIdx, imageIDs,
                   rmIdx, listed, probes, dockerCommand, launched>>

\* stopRunningContainers lines 92-96: docker stop; on failure some container
\* of the list is still running
DockerStop ==
    /\ At("dockerStop")
    /\ dockerLog' = Append(dockerLog, Call("stop", containers))
    /\ \/ running' = running \ containers /\ pc' = "listImages"
       \/ \E left \in (SUBSET containers) \ {{}} :
             running' = (running \ containers) \cup left /\ pc' = "dockerKill"
    /\ UNCHANGED <<flags, cacheVars, resolverVars, exitCode, containers, images, repoIdx,
                   imageIDs, rmIdx, listed, probes, dockerCommand, launched>>

\* variant: a failed docker kill does not end the process
DockerKill_NoExit ==
    /\ At("dockerKill")
    /\ dockerLog' = Append(dockerLog, Call("kill", containers))
    /\ \/ running' = running \ containers /\ pc' = "listImages" /\ UNCHANGED exitCode
       \/ pc' = "listImages" /\ UNCHANGED <<running, exitCode>>
    /\ UNCHANGED <<flags, cacheVars, resolverVars, containers, images, repoIdx,
                   imageIDs, rmIdx, listed, probes, dockerCommand, launched>>

\* stopRunningContainers lines 97-104: docker kill
DockerKill ==
    /\ At("dockerKill")
    /\ dockerLog' = Append(dockerLog, Call("kill", containers))
    /\ \/ running' = running \ containers /\ pc' = "listImages" /\ UNCHANGED exitCode
       \/ Exit(1) /\ UNCHANGED running
    /\ UNCHANGED <<flags, cacheVars, resolverVars, containers, images, repoIdx,
                   imageIDs, rmIdx, listed, probes, dockerCommand, launched>>

\* variant: the janitor loop ends after the first repository
AfterRepo_FirstOnly(i) == "promptDeviceName"

\* where the janitor loop goes after finishing repository i
AfterRepo(i) == IF i < Len(repoNames) THEN "listImages" ELSE "promptDeviceName"

\* main lines 265-267
ListImages ==
    /\ At("listImages")
    /\ dockerLog' = Append(dockerLog, Call("image ls", {repoNames[repoIdx]}))
    /\ \E ok \in BOOLEAN :
          IF ~ok THEN Exit(1) /\ UNCHANGED <<imageIDs, listed, repoIdx, rmIdx>>
          ELSE LET ids == getDockerImageIDsSorted(images, repoNames[repoIdx])
               IN  /\ imageIDs' = ids
                   /\ listed' = [listed EXCEPT ![repoIdx] = ids]
                   /\ rmIdx' = 2
                   /\ IF Len(ids) > 1
                      THEN pc' = "removeImage" /\ UNCHANGED repoIdx
                      ELSE /\ pc' = AfterRepo(repoIdx)
                           /\ repoIdx' = IF repoIdx < Len(repoNames)
                                         THEN repoIdx + 1 ELSE repoIdx
                   /\ UNCHANGED exitCode
    /\ UNCHANGED <<flags, cacheVars, resolverVars, running, containers, images, probes,
                   dockerCommand, launched>>

\* main lines 269-271, removeDockerImage
RemoveImage ==
    /\ At("removeImage")
    /\ dockerLog' = Append(dockerLog, Call("rmi", {imageIDs[rmIdx]}))
    /\ \E ok \in BOOLEAN :
          IF ~ok THEN Exit(1) /\ UNCHANGED <<images, rmIdx, repoIdx>>
          ELSE /\ images' = {x \in images : x.id # imageIDs[rmIdx]}
               /\ rmIdx' = rmIdx + 1
               /\ IF rmIdx < Len(imageIDs)
                  THEN pc' = "removeImage" /\ UNCHANGED repoIdx
                  ELSE /\ pc' = AfterRepo(repoIdx)
                       /\ repoIdx' = IF repoIdx < Len(repoNames)
                                     THEN repoIdx + 1 ELSE repoIdx
               /\ UNCHANGED exitCode
    /\ UNCHANGED <<flags, cacheVars, resolverVars, running, containers, imageIDs, listed,
                   probes, dockerCommand, launched>>

\* One pass through a prompt loop of main: the loop condition is evaluated;
\* if it holds the prompt is printed and one line is read with fmt.Scanln
\* into the field (a read error returns from main) and control goes back to
\* the loop condition; otherwise control leaves the loop.
PromptLoop(here, next, field, cond, line) ==
    /\ At(here)
    /\ IF cond
       THEN LET r == Scanln(args[field], line)
            IN  /\ prompted' = prompted \cup {field}
                /\ args' = [args EXCEPT ![field] = r[1]]
                /\ IF r[2] THEN Exit(0) ELSE UNCHANGED <<pc, exitCode>>
       ELSE pc' = next /\ UNCHANGED <<args, prompted, exitCode>>
    /\ UNCHANGED <<flags, cacheVars, hostVars, dockerLog, probes, dockerCommand,
                   launched>>

\* main lines 275-284
PromptDeviceName ==
    \E line \in Lines :
        PromptLoop("promptDeviceName", "promptDeviceID", "DeviceName",
                   DeviceNameLoopCond(args), line)

\* main lines 286-295
PromptDeviceID ==
    \E line \in Lines :
        PromptLoop("promptDeviceID", "promptUserID", "DeviceID",
                   DeviceIDLoopCond(args), line)

\* main lines 297-306
PromptUserID ==
    \E line \in Lines :
        PromptLoop("promptUserID", "promptOperatingSystem", "UserID",
                   UserIDLoopCond(args), line)

\* main lines 308-317
PromptOperatingSystem ==
    \E line \in Lines :
        PromptLoop("promptOperatingSystem", "resolveArchitecture", "OperatingSystem",
                   OperatingSystemLoopCond(args), line)

\* main lines 319-323, getPlatformArchitecture
ResolveArchitecture ==
    /\ At("resolveArchitecture")
    /\ IF args.OperatingSystem = "Windows"
       THEN /\ args' = [args EXCEPT !.Architecture = "x86_64"]
            /\ pc' = "resolveUseGPUs"
            /\ UNCHANGED <<probes, exitCode>>
       ELSE IF args.Architecture = ""
       THEN /\ probes' = probes \cup {"uname"}
            /\ \/ Exit(1) /\ UNCHANGED args
               \/ \E out \in UnameOutputs :
                     /\ args' = [args EXCEPT !.Architecture = out]
                     /\ pc' = "resolveUseGPUs"
                     /\ UNCHANGED exitCode
       ELSE pc' = "resolveUseGPUs" /\ UNCHANGED <<args, probes, exitCode>>
    /\ UNCHANGED <<flags, cacheVars, hostVars, prompted, dockerLog,
                   dockerCommand, launched>>

\* variant: the macOS branch is missing
ResolveUseGPUs_NoMacBranch ==
    /\ At("resolveUseGPUs")
    /\ IF args.UseGPUs = ""
       THEN pc' = "promptUseGPUs" /\ UNCHANGED args
       ELSE pc' = "checkGPU" /\ UNCHANGED args
    /\ UNCHANGED <<flags, cacheVars, hostVars, prompted, exitCode, dockerLog,
                   probes, dockerCommand, launched>>

\* main lines 325-328: the branch taken for UseGPUs
ResolveUseGPUs ==
    /\ At("resolveUseGPUs")
    /\ IF args.OperatingSystem = "macOS"
       THEN args' = [args EXCEPT !.UseGPUs = "false"] /\ pc' = "checkGPU"
       ELSE IF args.UseGPUs = ""
       THEN pc' = "promptUseGPUs" /\ UNCHANGED args
       ELSE pc' = "checkGPU" /\ UNCHANGED args
    /\ UNCHANGED <<flags, cacheVars, hostVars, prompted, exitCode, dockerLog,
                   probes, dockerCommand, launched>>

\* main lines 329-338
PromptUseGPUs ==
    \E line \in Lines :
        PromptLoop("promptUseGPUs", "checkGPU", "UseGPUs",
                   UseGPUsLoopCond(args), line)

\* main lines 341-345, checkGPUAvailability and checkNvidiaCTK
CheckGPU ==
    /\ At("checkGPU")
    /\ IF args.OperatingSystem # "macOS" /\ args.UseGPUs = "true"
       THEN \E smi \in BOOLEAN, ctk \in BOOLEAN :
               /\ probes' = probes \cup
                     (IF smi THEN {"nvidia-smi", "nvidia-ctk"} ELSE {"nvidia-smi"})
               /\ IF ~smi \/ ~ctk THEN Exit(1)
                  ELSE pc' = "checkDocker2" /\ UNCHANGED exitCode
       ELSE pc' = "checkDocker2" /\ UNCHANGED <<probes, exitCode>>
    /\ UNCHANGED <<flags, cacheVars, hostVars, resolverVars, dockerLog, dockerCommand,
                   launched>>

CheckDockerSecond == CheckDockerAt("checkDocker2", "validate")

\* main lines 351-364, getMacInfo
Validate ==
    /\ At("validate")
    /\ IF ~contains(validOSChoices, args.OperatingSystem)
       THEN Exit(1) /\ UNCHANGED probes
       ELSE IF ~contains(validArchChoices, args.Architecture)
       THEN Exit(1) /\ UNCHANGED probes
       ELSE IF args.OperatingSystem = "macOS"
       THEN /\ probes' = probes \cup {"sysctl-brand"}
            /\ \E silicon \in BOOLEAN :
                  IF silicon THEN pc' = "saveCache" /\ UNCHANGED exitCode
                  ELSE Exit(1)
       ELSE pc' = "saveCache" /\ UNCHANGED <<probes, exitCode>>
    /\ UNCHANGED <<flags, cacheVars, hostVars, resolverVars, dockerLog, dockerCommand,
                   launched>>

\* main lines 366-373, saveCache: os.Create may fail (file untouched), the
\* encoder may fail after the file was truncated
SaveCache ==
    /\ At("saveCache")
    /\ \/ Exit(1) /\ UNCHANGED <<cacheFile, cacheWrites>>
       \/ /\ cacheWrites' = cacheWrites + 1
          /\ \/ cacheFile' = NoFile /\ Exit(1)
             \/ /\ cacheFile' = FileOf(cacheData(args))
                /\ pc' = "buildCommand"
                /\ UNCHANGED exitCode
    /\ UNCHANGED <<flags, cache, cacheReads, hostVars, resolverVars, dockerLog, probes,
                   dockerCommand, launched>>

\* main line 375, constructDockerCommand
BuildCommand ==
    /\ At("buildCommand")
    /\ IF args.OperatingSystem = "macOS"
       THEN /\ probes' = probes \cup {"sysctl-machdep"}
            /\ \/ Exit(1) /\ UNCHANGED dockerCommand
               \/ /\ dockerCommand' =
                        constructDockerCommand(args, args.Architecture, MacInfoOutput)
                  /\ pc' = "launch"
                  /\ UNCHANGED exitCode
       ELSE /\ dockerCommand' = constructDockerCommand(args, args.Architecture, "")
            /\ pc' = "launch"
            /\ UNCHANGED <<probes, exitCode>>
    /\ UNCHANGED <<flags, cacheVars, hostVars, resolverVars, dockerLog, launched>>

\* main lines 377-381
Launch ==
    /\ At("launch")
    /\ dockerLog' = Append(dockerLog, Call("run", {}))
    /\ \/ launched' = TRUE /\ pc' = "done" /\ exitCode' = 0
       \/ launched' = FALSE /\ Exit(1)
    /\ UNCHANGED <<flags, cacheVars, hostVars, resolverVars, probes, dockerCommand>>

Next ==
    \/ LoadCache
    \/ CacheFallback
    \/ CheckDockerFirst
    \/ DockerPs
    \/ DockerStop
    \/ DockerKill
    \/ ListImages
    \/ RemoveImage
    \/ PromptDeviceName
    \/ PromptDeviceID
    \/ PromptUserID
    \/ PromptOperatingSystem
    \/ ResolveArchitecture
    \/ ResolveUseGPUs
    \/ PromptUseGPUs
    \/ CheckGPU
    \/ CheckDockerSecond
    \/ Validate
    \/ SaveCache
    \/ BuildCommand
    \/ Launch

Spec == Init /\ [][Next]_vars

(* ------------------------------------------------------------------ *)
(* Vocabulary of the properties                                        *)
(* ------------------------------------------------------------------ *)

\* the steps of main in program order
PcOrder ==
    <<"loadCache", "fallback", "checkDocker1", "dockerPs", "dockerStop", "dockerKill",
      "listImages", "removeImage", "promptDeviceName", "promptDeviceID", "promptUserID",
      "promptOperatingSystem", "resolveArchitecture", "resolveUseGPUs", "promptUseGPUs",
      "checkGPU", "checkDocker2", "validate", "saveCache", "buildCommand", "launch",
      "done">>

Rank(p) == CHOOSE i \in 1..Len(PcOrder) : PcOrder[i] = p

Past(p) == Rank(pc) > Rank(p)

HasCmd(c) == \E i \in 1..Len(dockerLog) : dockerLog[i].cmd = c

CountCmd(c) == Cardinality({i \in 1..Len(dockerLog) : dockerLog[i].cmd = c})

HasToken(t) == \E i \in 1..Len(dockerCommand) : dockerCommand[i] = t

HasPullAlways ==
    \E i \in 1..Len(dockerCommand) - 1 :
        dockerCommand[i] = "--pull" /\ dockerCommand[i + 1] = "always"

IsUUID(s) == s \in ParsableUUIDs

IsOS(s) == s \in {"macOS", "Linux"}

IsBool(s) == s \in {"true", "false"}

IsArch(s) == s \in {"x86_64", "arm64", "aarch64"}

PromptPcs ==
    {"promptDeviceName", "promptDeviceID", "promptUserID", "promptOperatingSystem",
     "promptUseGPUs"}

FlagOf(field) ==
    CASE field = "DeviceName" -> flags.device_name
      [] field = "DeviceID" -> flags.device_id
      [] field = "UserID" -> flags.user_id
      [] field = "OperatingSystem" -> flags.operating_system
      [] field = "UseGPUs" -> flags.usegpus

KeyOf(field) ==
    CASE field = "DeviceName" -> "device_name"
      [] field = "DeviceID" -> "device_id"
      [] field = "UserID" -> "user_id"
      [] field = "OperatingSystem" -> "operating_system"
      [] field = "UseGPUs" -> "usegpus"

ValidFor(field, s) ==
    CASE field = "DeviceName" -> s # ""
      [] field = "DeviceID" -> IsUUID(s)
      [] field = "UserID" -> IsUUID(s)
      [] field = "OperatingSystem" -> IsOS(s)
      [] field = "UseGPUs" -> IsBool(s)

CachedValid(field) ==
    cache[KeyOf(field)].kind = "string" /\ ValidFor(field, cache[KeyOf(field)].s)

AllFlagsValid ==
    /\ \A field \in Fields : ValidFor(field, FlagOf(field))
    /\ IsArch(flags.arch)

ImageOf(id) == CHOOSE x \in ImageUniverse : x.id = id

RemovedIDs == UNION {dockerLog[i].arg : i \in {j \in 1..Len(dockerLog) : dockerLog[j].cmd = "rmi"}}

JanitorFinished ==
    /\ HasCmd("ps")
    /\ containers \cap running = {}
    /\ \A i \in 1..Len(repoNames) :
          \E j \in 1..Len(dockerLog) :
              dockerLog[j] = Call("image ls", {repoNames[i]})

(* ------------------------------------------------------------------ *)
(* Properties                                                          *)
(* ------------------------------------------------------------------ *)

\* C1: in a run started with valid values for all six string flags, no
\* prompt is ever issued and, once resolution is over, every field of the
\* Arguments holds its flag's value.
C1_FlagsHavePrecedence ==
    AllFlagsValid =>
        /\ prompted = {}
        /\ Past("validate") =>
              /\ \A field \in Fields : args[field] = FlagOf(field)
              /\ args.Architecture = flags.arch

\* C2: after the fallback, a field whose flag is empty and whose cache key
\* holds a valid value carries that cached value and is never prompted for;
\* a field is prompted for only when neither its flag nor its cached value
\* is valid.
C2_CacheFallbackPerField ==
    Past("fallback") =>
        \A field \in Fields :
            /\ (FlagOf(field) = "" /\ CachedValid(field)) =>
                  /\ field \notin prompted
                  /\ args[field] = cache[KeyOf(field)].s
            /\ field \in prompted =>
                  /\ ~ValidFor(field, FlagOf(field))
                  /\ ~CachedValid(field)

\* C3 (state part): once the run is past the device-ID loop the DeviceID
\* parses as a UUID, and likewise for the UserID; in particular whatever is
\* saved to the cache or launched carries UUIDs.
C3_PastLoopsAreUUIDs ==
    /\ Past("promptDeviceID") => IsUUID(args.DeviceID)
    /\ Past("promptUserID") => IsUUID(args.UserID)
    /\ (cacheWrites > 0 \/ dockerCommand # <<>> \/ launched) =>
          IsUUID(args.DeviceID) /\ IsUUID(args.UserID)

\* C3 (step part): a line read without error at the device-ID (user-ID)
\* prompt that is no UUID leaves the run at that same prompt, whose loop
\* condition then holds again.
C3_NonUUIDReprompts ==
    /\ (At("promptDeviceID") /\ exitCode' = -1 /\ ~IsUUID(args'.DeviceID)) =>
          pc' = "promptDeviceID"
    /\ (At("promptUserID") /\ exitCode' = -1 /\ ~IsUUID(args'.UserID)) =>
          pc' = "promptUserID"

C4_PastLoopIsValidOS ==
    /\ Past("promptOperatingSystem") => IsOS(args.OperatingSystem)
    /\ (cacheWrites > 0 \/ dockerCommand # <<>> \/ launched) => IsOS(args.OperatingSystem)

\* C4 (step part): a step taken at the operating-system prompt with a value
\* outside the set either ends the run or stays at that prompt.
C4_InvalidOSReprompts ==
    (At("promptOperatingSystem") /\ ~IsOS(args'.OperatingSystem)) =>
        \/ exitCode' # -1
        \/ pc' = "promptOperatingSystem"

\* C4: resolution never completes with an operating system outside
\* {macOS, Linux}: the run prompts again or ends, and nothing is saved or
\* launched with such a value.
C4_InvalidOSNeverCompletes == [](C4_PastLoopIsValidOS) /\ [][C4_InvalidOSReprompts]_vars

\* C4 witness: "Windows" was typed at the operating-system prompt and the
\* run is still at that prompt
C4_Witness ==
    At("promptOperatingSystem") /\ args.OperatingSystem = "Windows"

\* C5: once the UseGPUs branch has run with OperatingSystem macOS, UseGPUs
\* is "false", the GPU prompt was never printed and neither GPU probe ran;
\* a built command carries MAC_INFO and --pull always exactly when the
\* OperatingSystem is macOS.
C5_MacForcesNoGPU ==
    /\ (Past("resolveUseGPUs") /\ args.OperatingSystem = "macOS") =>
          /\ args.UseGPUs = "false"
          /\ "UseGPUs" \notin prompted
          /\ probes \cap {"nvidia-smi", "nvidia-ctk"} = {}
    /\ dockerCommand # <<>> =>
          IF args.OperatingSystem = "macOS"
          THEN HasToken("MAC_INFO=" \o MacInfoOutput) /\ HasPullAlways
          ELSE /\ ~HasToken("MAC_INFO=" \o MacInfoOutput)
               /\ ~HasToken("MAC_INFO=")
               /\ ~HasToken("--pull")

\* C5 witness: a container was launched for macOS
C5_Witness == launched /\ args.OperatingSystem = "macOS" /\ HasPullAlways

\* C6: the launched command ends with the beta image and carries
\* CURRENT_LOG_LEVEL=DEBUG and ENVIRONMENT=DEV when --beta was given, and
\* ends with the stable image and carries neither otherwise.
C6_BetaSelectsBetaImage ==
    launched =>
        IF flags.beta
        THEN /\ dockerCommand[Len(dockerCommand)] = BetaImage
             /\ HasToken("CURRENT_LOG_LEVEL=DEBUG")
             /\ HasToken("ENVIRONMENT=DEV")
        ELSE /\ dockerCommand[Len(dockerCommand)] = StableImage
             /\ ~HasToken("CURRENT_LOG_LEVEL=DEBUG")
             /\ ~HasToken("ENVIRONMENT=DEV")

\* C7: when the janitor has finished, for every tracked repository with N
\* listed images exactly N-1 of them were removed (none for N = 0), at most
\* one image of the repository remains, and the one that remains is the
\* most recently created of those listed.
C7_JanitorKeepsNewest ==
    Past("removeImage") =>
        \A i \in 1..Len(repoNames) :
            LET L == Range(listed[i])
                N == Len(listed[i])
                Remaining == {x \in images : x.repo = repoNames[i]}
            IN  /\ Cardinality(RemovedIDs \cap L) = (IF N = 0 THEN 0 ELSE N - 1)
                /\ Cardinality(Remaining) <= 1
                /\ \A x \in Remaining : \A id \in L : ImageOf(id).created <= x.created

\* C8: an image removal is attempted only after docker ps and, when
\* containers were listed, after docker stop, with none of the listed
\* containers still running; docker kill is attempted at most once, right
\* after the docker stop and on the same containers; a run that ended at the
\* kill ended with exit code 1, one kill attempt, no removal and no launch.
C8_StopBeforeRemoval ==
    /\ HasCmd("rmi") => containers \cap running = {}
    /\ \A i \in 1..Len(dockerLog) :
          dockerLog[i].cmd = "rmi" =>
              /\ \E j \in 1..(i - 1) : dockerLog[j].cmd = "ps"
              /\ containers # {} => \E j \in 1..(i - 1) : dockerLog[j].cmd = "stop"
    /\ CountCmd("stop") <= 1
    /\ CountCmd("kill") <= 1
    /\ \A i \in 1..Len(dockerLog) :
          dockerLog[i].cmd = "kill" =>
              /\ i > 1
              /\ dockerLog[i - 1].cmd = "stop"
              /\ dockerLog[i].arg = dockerLog[i - 1].arg
    /\ At("dockerKill") => CountCmd("kill") = 0 /\ CountCmd("stop") = 1
    /\ (pc = "dockerKill" /\ exitCode # -1) =>
          /\ exitCode = 1
          /\ CountCmd("kill") = 1
          /\ ~HasCmd("rmi")
          /\ ~HasCmd("run")
          /\ ~launched
    /\ (Past("dockerKill") /\ HasCmd("kill")) => containers \cap running = {}

\* C8 witness: docker stop failed, docker kill succeeded, and an image was
\* then removed
C8_Witness == HasCmd("kill") /\ HasCmd("rmi") /\ running = {}

\* C9 (state part): the cache file is opened for reading once, at the first
\* step; it is created for writing at most once, and only at the save step
\* with every field resolved and valid; after a successful save the file
\* holds exactly the five resolved fields.
C9_CacheLifecycle ==
    /\ cacheReads = (IF At("loadCache") THEN 0 ELSE 1)
    /\ cacheWrites <= 1
    /\ cacheWrites = 1 =>
          /\ Rank(pc) >= Rank("saveCache")
          /\ \A field \in Fields : ValidFor(field, args[field])
          /\ IsArch(args.Architecture)
    /\ Past("saveCache") =>
          /\ cacheWrites = 1
          /\ cacheFile.present
          /\ \A field \in Fields :
                cacheFile.data[KeyOf(field)] = StrValue(args[field])
          /\ \A k \in CacheKeys \ {KeyOf(field) : field \in Fields} :
                cacheFile.data[k] = NilValue

\* C9 (step part): the file changes only in a step of the save, and a run
\* that has ended leaves it alone.
C9_OnlySaveWrites ==
    (cacheFile' # cacheFile \/ cacheWrites' # cacheWrites) =>
        At("saveCache") /\ cacheWrites = 0 /\ cacheWrites' = 1

\* C9: the cache file is read once at startup and overwritten at most once,
\* after resolution and every check; a run that ends earlier leaves it
\* unchanged; what is written is exactly the resolved snapshot.
C9_CacheReadOnceWrittenAtEnd == [](C9_CacheLifecycle) /\ [][C9_OnlySaveWrites]_vars

\* C9 witness: a run that launched a container after replacing a cache file
\* that held other values
C9_Witness ==
    /\ launched
    /\ cacheWrites = 1
    /\ cacheFile.data["device_name"] = StrValue("<nil>")
    /\ cacheFile.data["operating_system"] = StrValue("macOS")

\* C10 as stated: no container is stopped or killed and no image is removed
\* before resolution and validation are over, so a run that ended at a
\* prompt has stopped and removed nothing.
C10_JanitorAfterResolver ==
    (HasCmd("stop") \/ HasCmd("kill") \/ HasCmd("rmi")) => Past("validate")

\* C10 amended: the janitor runs between the cache fallback and the
\* prompts: no prompt is printed and no architecture, GPU or Mac-silicon
\* probe runs before the janitor has stopped the listed containers and
\* listed all three repositories; before that nothing is saved or launched;
\* a run that ended at a prompt ended with code 0 after the janitor, and has
\* saved no cache and launched nothing.
C10_JanitorBeforeResolver ==
    /\ Past("removeImage") => JanitorFinished
    /\ (prompted # {} \/ probes # {}) => Past("removeImage")
    /\ ~Past("removeImage") => ~HasCmd("run") /\ cacheWrites = 0
    /\ (pc \in PromptPcs /\ exitCode # -1) =>
          /\ exitCode = 0
          /\ JanitorFinished
          /\ cacheWrites = 0
          /\ dockerCommand = <<>>
          /\ ~HasCmd("run")

\* C10 witness: a run that ended on a read failure at the device-ID prompt
\* after a container was stopped and an image removed
C10_Witness ==
    /\ pc = "promptDeviceID"
    /\ exitCode = 0
    /\ HasCmd("stop")
    /\ HasCmd("rmi")

====
